---- MODULE Spec2Model ----
(***************************************************************************)
(* Model of src/main.py: sentences that differ in one word position are    *)
(* grouped by the pattern obtained by removing that word.                  *)
(*                                                                         *)
(* A Python str is a sequence of one-character strings.  A Python list is  *)
(* a sequence; Python indices are 0-based and are kept 0-based in          *)
(* word_index and pattern_index (At and Slice translate them).  A Sentence *)
(* is its list of Word records.  The lists of the collection hold Sentence *)
(* objects; an object is identified by its position (1..n) in the list     *)
(* built by parse_to_sentences, so the lists hold those positions.         *)
(***************************************************************************)
EXTENDS Integers, Sequences, FiniteSets, TLC

(* ------------------------------ bounds -------------------------------- *)
\* most lines in the input file
MaxLines == 3
\* the words of a regular input line
MaxWords == 4
\* most characters of a line given to Sentence.create alone
MaxLineLen == 4

(* --------------------------- Python helpers --------------------------- *)
Min(x, y) == IF x < y THEN x ELSE y

Range(seq) == {seq[k] : k \in 1..Len(seq)}

\* seq[index] for a 0-based index that is in range
At(seq, index) == seq[index + 1]

\* seq[lo:hi] for 0 <= lo, 0 <= hi
Slice(seq, lo, hi) == SubSeq(seq, lo + 1, Min(hi, Len(seq)))

\* what str.strip() removes
Whitespace == {" ", "\n", "\r", "\t"}

RECURSIVE lstrip(_)
lstrip(s) ==
    IF s = <<>> \/ Head(s) \notin Whitespace THEN s ELSE lstrip(Tail(s))

RECURSIVE rstrip(_)
rstrip(s) ==
    IF s = <<>> \/ s[Len(s)] \notin Whitespace
    THEN s
    ELSE rstrip(SubSeq(s, 1, Len(s) - 1))

\* str.strip()
strip(s) == rstrip(lstrip(s))

\* str.split(sep) for a one-character separator
RECURSIVE split(_, _)
split(s, sep) ==
    IF \A k \in 1..Len(s) : s[k] # sep
    THEN <<s>>
    ELSE LET k == CHOOSE k \in 1..Len(s) :
                    s[k] = sep /\ \A j \in 1..(k - 1) : s[j] # sep
         IN  <<SubSeq(s, 1, k - 1)>> \o split(SubSeq(s, k + 1, Len(s)), sep)

\* sep.join(strs) for a string sep
RECURSIVE join(_, _)
join(sep, strs) ==
    IF strs = <<>> THEN <<>>
    ELSE IF Len(strs) = 1 THEN strs[1]
    ELSE strs[1] \o sep \o join(sep, Tail(strs))

(* ------------------------------ Sentence ------------------------------ *)
\* Sentence.create: the words of line.strip().split(" "), enumerated from 0
create(line) ==
    LET strs == split(strip(line), " ")
    IN  [k \in 1..Len(strs) |-> [word_index |-> k - 1, word_str |-> strs[k]]]

get_words_string_no_space(words) ==
    join(<<>>, [k \in 1..Len(words) |-> words[k].word_str])

\* Sentence.get_words_string
get_words_string(words) ==
    join(<<" ">>, [k \in 1..Len(words) |-> words[k].word_str])

\* Sentence.__str__
str(sentence) == get_words_string(sentence)

\* Sentence.parse_to_sentences
parse_to_sentences(ls) == [k \in 1..Len(ls) |-> create(ls[k])]

\* Sentence.get_word_str_by_index; the index is in range where it is used
get_word_str_by_index(sentence, index) == At(sentence, index).word_str

\* Sentence.get_sub_sentence_words with pop_index given
get_sub_sentence_words(sentence, start_index, end_index, pop_index) ==
    Slice(sentence, start_index, pop_index)
        \o Slice(sentence, pop_index + 1, end_index)

(* ------------------------------- Pattern ------------------------------ *)
START_INDEX == 2

extract_pattern_string_drop_last(sentence, pattern_index) ==
    get_words_string(get_sub_sentence_words(sentence, START_INDEX,
                                            Len(sentence) - 1, pattern_index))

\* Pattern.extract_pattern_string
extract_pattern_string(sentence, pattern_index) ==
    get_words_string(get_sub_sentence_words(sentence, START_INDEX,
                                            Len(sentence), pattern_index))

Pattern_create_no_index(sentence, pattern_index) ==
    [pattern_string |-> extract_pattern_string(sentence, pattern_index),
     pattern_index  |-> START_INDEX]

\* Pattern.create; __eq__ and __hash__ compare both fields, as records do
Pattern_create(sentence, pattern_index) ==
    [pattern_string |-> extract_pattern_string(sentence, pattern_index),
     pattern_index  |-> pattern_index]

(* -------------------------- PatternCollection ------------------------- *)
\* PatternCollection.__init__
PatternCollection_init ==
    [_data |-> <<>>, _pattern_groups |-> {}]

has_pattern_never(self, pattern) == FALSE

\* PatternCollection.has_pattern
has_pattern(self, pattern) == pattern \in DOMAIN self._data

\* PatternCollection.add_pattern
add_pattern(self, new_pattern, pattern_sentence) ==
    [self EXCEPT !._data =
        [p \in DOMAIN self._data \cup {new_pattern} |->
            IF p = new_pattern THEN <<pattern_sentence>> ELSE self._data[p]]]

update_pattern_unflagged(self, pattern, pattern_sentence) ==
    [self EXCEPT !._data[pattern] = Append(@, pattern_sentence)]

update_pattern_prepend(self, pattern, pattern_sentence) ==
    [self EXCEPT !._data[pattern] = <<pattern_sentence>> \o @,
                 !._pattern_groups = @ \cup {pattern}]

\* PatternCollection.update_pattern
update_pattern(self, pattern, pattern_sentence) ==
    [self EXCEPT !._data[pattern] = Append(@, pattern_sentence),
                 !._pattern_groups = @ \cup {pattern}]

\* PatternCollection.get_patterns_groups: the flagged patterns, to be
\* enumerated in the order the set's iterator gives
get_patterns_groups(self) == self._pattern_groups

TRAILER ==
    <<"T", "h", "e", " ", "c", "h", "a", "n", "g", "i", "n", "g", " ",
      "w", "o", "r", "d", " ", "w", "a", "s", ":", " ">>

get_pattern_collection_paragraph_start_word(group_sentences, pattern_index) ==
    LET changing_word ==
            join(<<",">>, [k \in 1..Len(group_sentences) |->
                    get_word_str_by_index(group_sentences[k], START_INDEX)])
    IN  join(<<"\n">>, [k \in 1..Len(group_sentences) |-> str(group_sentences[k])])
            \o <<"\n">> \o TRAILER \o changing_word \o <<"\r", "\n">>

\* PatternCollection.get_pattern_collection_paragraph
get_pattern_collection_paragraph(group_sentences, pattern_index) ==
    LET changing_word ==
            join(<<",">>, [k \in 1..Len(group_sentences) |->
                    get_word_str_by_index(group_sentences[k], pattern_index)])
    IN  join(<<"\n">>, [k \in 1..Len(group_sentences) |-> str(group_sentences[k])])
            \o <<"\n">> \o TRAILER \o changing_word \o <<"\r", "\n">>

(* ------------------------------- inputs ------------------------------- *)
\* the word texts of the regular input lines
Vocabulary == {<<"a">>, <<"b">>}

\* the two leading words of the regular input lines
Preamble == << <<"a">>, <<"b">> >>

\* one line of the file, as readlines() returns it
Line(strs) == join(<<" ">>, strs) \o <<"\n">>

\* the preamble followed by every choice of words, MaxWords words in all
RegularLines ==
    {Line(Preamble \o tail) : tail \in [1..(MaxWords - 2) -> Vocabulary]}

\* a blank line and a line of the preamble alone
ShortLines == {Line(<<>>), Line(Preamble)}

\* another preamble; a doubled space (an empty word); three words between a
\* leading and a trailing space
IrregularLines ==
    {Line(<< <<"b">>, <<"b">>, <<"a">>, <<"b">> >>),
     Line(<< <<"a">>, <<"b">>, <<>>, <<"a">> >>),
     Line(<< <<>>, <<"a">>, <<"b">>, <<"a">>, <<>> >>)}

InputLines == RegularLines \cup ShortLines \cup IrregularLines

\* the characters of a line given to Sentence.create alone
TextChars == {"a", "b", " ", "\n"}

\* every line of at most MaxLineLen of these characters
TextLines == UNION {[1..n -> TextChars] : n \in 0..MaxLineLen}

(* -------------------------------- state ------------------------------- *)
VARIABLES
    file_status,          \* the input path: "ok", "missing" or "unreadable"
    file_lines,           \* the lines of the input file
    pc,                   \* where main is
    lines,                \* main: lines
    sentences,            \* main: sentences
    patterns_collection,  \* collect_patterns: patterns_collection
    sentence_pos,         \* collect_patterns: position of the outer loop
    pattern_index,        \* collect_patterns: pattern_index of the inner loop
    yielded,              \* the flagged patterns the generator has passed
    output_file,          \* output.txt: whether written, and the strings written
    stdout,               \* what print has written
    run,                  \* which run of main this is
    first_output,         \* the strings written by the first run
    rendered              \* the strings str() gives for the parsed sentences

vars == <<file_status, file_lines, pc, lines, sentences, patterns_collection,
          sentence_pos, pattern_index, yielded, output_file, stdout, run,
          first_output, rendered>>

file_vars == <<file_status, file_lines>>
main_vars == <<lines, sentences>>
collect_vars == <<patterns_collection, sentence_pos, pattern_index>>
run_vars == <<run, first_output, rendered>>

Init ==
    /\ file_status \in {"ok", "missing", "unreadable"}
    /\ file_lines \in
          IF file_status = "ok"
          THEN UNION {[1..n -> InputLines] : n \in 0..MaxLines}
          ELSE {<<>>}
    /\ pc = "main"
    /\ lines = <<>>
    /\ sentences = <<>>
    /\ patterns_collection = PatternCollection_init
    /\ sentence_pos = 0
    /\ pattern_index = START_INDEX
    /\ yielded = {}
    /\ output_file = [written |-> FALSE, content |-> <<>>]
    /\ stdout = <<>>
    /\ run = 1
    /\ first_output = <<>>
    /\ rendered = <<>>

(* -------------------------------- main -------------------------------- *)
\* read_file returns the lines
ReadFileOk ==
    /\ pc = "main"
    /\ file_status = "ok"
    /\ lines' = file_lines
    /\ pc' = "parse"
    /\ UNCHANGED <<file_vars, sentences, collect_vars, yielded, output_file,
                   stdout, run_vars>>

\* read_file turns FileNotFoundError into ValueError; main prints and returns
ReadFileNotFound ==
    /\ pc = "main"
    /\ file_status = "missing"
    /\ stdout' = Append(stdout, "Error: File not found")
    /\ pc' = "returned"
    /\ UNCHANGED <<file_vars, main_vars, collect_vars, yielded, output_file,
                   run_vars>>

\* fp.open() raises another OSError (a directory, no permission): neither
\* read_file nor main catches it
ReadFileOSError ==
    /\ pc = "main"
    /\ file_status = "unreadable"
    /\ pc' = "uncaught"
    /\ UNCHANGED <<file_vars, main_vars, collect_vars, yielded, output_file,
                   stdout, run_vars>>

\* Sentence.parse_to_sentences, and the entry of collect_patterns
Parse ==
    /\ pc = "parse"
    /\ sentences' = parse_to_sentences(lines)
    /\ patterns_collection' = PatternCollection_init
    /\ sentence_pos' = 1
    /\ pattern_index' = START_INDEX
    /\ pc' = "collect"
    /\ UNCHANGED <<file_vars, lines, yielded, output_file, stdout, run_vars>>

(* --------------------------- collect_patterns ------------------------- *)
candidate_indices_inclusive(sentence) == START_INDEX..Len(sentence)

\* range(Pattern.START_INDEX, len(sentence))
candidate_indices(sentence) == START_INDEX..(Len(sentence) - 1)

\* the outer loop is at a sentence
InLoop ==
    /\ pc = "collect"
    /\ sentence_pos <= Len(sentences)

\* the inner loop is at a candidate index of that sentence
InInnerLoop ==
    /\ InLoop
    /\ pattern_index \in candidate_indices(sentences[sentence_pos])

\* the pattern is new: add it and go on with the next index
CollectAdd ==
    /\ InInnerLoop
    /\ LET pattern == Pattern_create(sentences[sentence_pos], pattern_index)
       IN  /\ ~has_pattern(patterns_collection, pattern)
           /\ patterns_collection' =
                  add_pattern(patterns_collection, pattern, sentence_pos)
    /\ pattern_index' = pattern_index + 1
    /\ UNCHANGED <<file_vars, pc, main_vars, sentence_pos, yielded,
                   output_file, stdout, run_vars>>

CollectUpdate_no_break ==
    /\ InInnerLoop
    /\ LET pattern == Pattern_create(sentences[sentence_pos], pattern_index)
       IN  /\ has_pattern(patterns_collection, pattern)
           /\ patterns_collection' =
                  update_pattern(patterns_collection, pattern, sentence_pos)
    /\ pattern_index' = pattern_index + 1
    /\ UNCHANGED <<file_vars, pc, main_vars, sentence_pos, yielded,
                   output_file, stdout, run_vars>>

\* the pattern is known: update it and break to the next sentence
CollectUpdate ==
    /\ InInnerLoop
    /\ LET pattern == Pattern_create(sentences[sentence_pos], pattern_index)
       IN  /\ has_pattern(patterns_collection, pattern)
           /\ patterns_collection' =
                  update_pattern(patterns_collection, pattern, sentence_pos)
    /\ sentence_pos' = sentence_pos + 1
    /\ pattern_index' = START_INDEX
    /\ UNCHANGED <<file_vars, pc, main_vars, yielded, output_file, stdout,
                   run_vars>>

\* the range of the inner loop is exhausted: the next sentence
CollectNextSentence ==
    /\ InLoop
    /\ pattern_index \notin candidate_indices(sentences[sentence_pos])
    /\ sentence_pos' = sentence_pos + 1
    /\ pattern_index' = START_INDEX
    /\ UNCHANGED <<file_vars, pc, main_vars, patterns_collection, yielded,
                   output_file, stdout, run_vars>>

\* the outer loop is exhausted: collect_patterns returns
CollectReturn ==
    /\ pc = "collect"
    /\ sentence_pos > Len(sentences)
    /\ pc' = "write"
    /\ UNCHANGED <<file_vars, main_vars, collect_vars, yielded, output_file,
                   stdout, run_vars>>

(* ------------------------------ write_file ---------------------------- *)
\* open(fp, "w") creates or truncates output.txt
WriteOpen ==
    /\ pc = "write"
    /\ output_file' = [written |-> TRUE, content |-> <<>>]
    /\ yielded' = {}
    /\ pc' = "writelines"
    /\ UNCHANGED <<file_vars, main_vars, collect_vars, stdout, run_vars>>

extract_pattern_groups_output_once(pattern) ==
    /\ output_file' = [output_file EXCEPT !.content = Append(@,
          get_pattern_collection_paragraph(
              [k \in 1..Len(patterns_collection._data[pattern]) |->
                  sentences[patterns_collection._data[pattern][k]]],
              pattern.pattern_index))]
    /\ yielded' = get_patterns_groups(patterns_collection)

\* extract_pattern_groups_output yields the paragraph of the next flagged
\* pattern and writelines writes it
extract_pattern_groups_output(pattern) ==
    /\ output_file' = [output_file EXCEPT !.content = Append(@,
          get_pattern_collection_paragraph(
              [k \in 1..Len(patterns_collection._data[pattern]) |->
                  sentences[patterns_collection._data[pattern][k]]],
              pattern.pattern_index))]
    /\ yielded' = yielded \cup {pattern}

\* one step of writelines over the generator; the set is enumerated in an
\* order the program does not fix
WriteParagraph ==
    /\ pc = "writelines"
    /\ \E pattern \in get_patterns_groups(patterns_collection) \ yielded :
          extract_pattern_groups_output(pattern)
    /\ UNCHANGED <<file_vars, pc, main_vars, collect_vars, stdout, run_vars>>

\* the generator is exhausted: the file is closed and main returns
WriteClose ==
    /\ pc = "writelines"
    /\ get_patterns_groups(patterns_collection) \subseteq yielded
    /\ pc' = "done"
    /\ UNCHANGED <<file_vars, main_vars, collect_vars, yielded, output_file,
                   stdout, run_vars>>

\* the program is run again on the same file
Rerun ==
    /\ pc = "done"
    /\ run = 1
    /\ run' = 2
    /\ first_output' = output_file.content
    /\ pc' = "main"
    /\ UNCHANGED <<file_vars, main_vars, collect_vars, yielded, output_file,
                   stdout, rendered>>

Next ==
    \/ ReadFileOk
    \/ ReadFileNotFound
    \/ ReadFileOSError
    \/ Parse
    \/ CollectAdd
    \/ CollectUpdate
    \/ CollectNextSentence
    \/ CollectReturn
    \/ WriteOpen
    \/ WriteParagraph
    \/ WriteClose

Spec == Init /\ [][Next]_vars

NextRerun == Next \/ Rerun

SpecRerun == Init /\ [][NextRerun]_vars

(* ------------------- Sentence.create and str() alone ------------------ *)
\* parse_to_sentences is about to be given one line of TextLines
InitParse ==
    /\ file_status = "ok"
    /\ file_lines = <<>>
    /\ pc = "parse"
    /\ lines \in {<<line>> : line \in TextLines}
    /\ sentences = <<>>
    /\ patterns_collection = PatternCollection_init
    /\ sentence_pos = 0
    /\ pattern_index = START_INDEX
    /\ yielded = {}
    /\ output_file = [written |-> FALSE, content |-> <<>>]
    /\ stdout = <<>>
    /\ run = 1
    /\ first_output = <<>>
    /\ rendered = <<>>

\* str() of every parsed sentence
Render ==
    /\ pc = "collect"
    /\ rendered' = [k \in 1..Len(sentences) |-> str(sentences[k])]
    /\ pc' = "rendered"
    /\ UNCHANGED <<file_vars, main_vars, collect_vars, yielded, output_file,
                   stdout, run, first_output>>

NextParse == Parse \/ Render

SpecParse == InitParse /\ [][NextParse]_vars

(* ------------------------ reading the final state --------------------- *)
data == patterns_collection._data
groups == patterns_collection._pattern_groups

\* collect_patterns has returned
AfterCollect == pc \in {"write", "writelines", "done"}

\* the text of the word at a 0-based position
WordAt(sentence, j) == At(sentence, j).word_str

\* the 0-based positions at which two sentences of equal length differ
DiffPositions(A, B) ==
    {j \in 0..(Len(A) - 1) : WordAt(A, j) # WordAt(B, j)}

\* equal length, and position i is the only one that differs
OneDiffAt(A, B, i) ==
    /\ Len(A) = Len(B)
    /\ DiffPositions(A, B) = {i}

\* the sentence at input position x was appended to an existing pattern
\* whose index is below i
MatchedBelow(x, i) ==
    \E p \in DOMAIN data :
        /\ p.pattern_index < i
        /\ x \in Range(Tail(data[p]))

\* the lines of a written paragraph before its trailer line
BodyLines(paragraph) ==
    LET ls == split(paragraph, "\n")
    IN  SubSeq(ls, 1, Len(ls) - 2)

\* the words listed on the trailer line of a written paragraph
ChangingWords(paragraph) ==
    LET ls == split(paragraph, "\n")
        trailer == ls[Len(ls) - 1]
    IN  split(SubSeq(trailer, Len(TRAILER) + 1, Len(trailer) - 1), ",")

\* the keys whose list has two or more sentences
MultiKeys == {p \in DOMAIN data : Len(data[p]) >= 2}

(* -------------------------------- C1 ---------------------------------- *)
\* C1: after collect_patterns every input sentence (by input position) is
\* in the list of at most one flagged pattern.
C1_AtMostOneGroup ==
    AfterCollect =>
        \A x \in 1..Len(sentences) :
            Cardinality({p \in groups : x \in Range(data[p])}) <= 1

(* -------------------------------- C2 ---------------------------------- *)
\* C2: after collect_patterns, any two sentences in the list of a flagged
\* pattern with index i have equal length and the same word at every
\* position j in [2, len) other than i.
C2_GroupAgreesFromStart ==
    AfterCollect =>
        \A p \in groups : \A x, y \in Range(data[p]) :
            /\ Len(sentences[x]) = Len(sentences[y])
            /\ \A j \in 2..(Len(sentences[x]) - 1) :
                  j # p.pattern_index =>
                      WordAt(sentences[x], j) = WordAt(sentences[y], j)

\* a flagged pattern of four-word sentences that differ at its index
C2_Witness ==
    /\ AfterCollect
    /\ \E p \in groups : \E x, y \in Range(data[p]) :
          /\ Len(sentences[x]) >= 4
          /\ WordAt(sentences[x], p.pattern_index)
                # WordAt(sentences[y], p.pattern_index)

(* -------------------------------- C3 ---------------------------------- *)
\* C3 as stated: any two sentences in the same group have equal length and
\* the same word at every position, 0 and 1 included, except the group's
\* pattern_index.
C3_GroupAgreesEverywhere ==
    AfterCollect =>
        \A p \in groups : \A x, y \in Range(data[p]) :
            /\ Len(sentences[x]) = Len(sentences[y])
            /\ DiffPositions(sentences[x], sentences[y])
                  \subseteq {p.pattern_index}

\* C3 amended: any two sentences in the same group have equal length and
\* differ at most at positions 0 and 1 and at the group's pattern_index, so
\* they differ in at most one of the positions from 2 on.
C3_GroupDiffersOnlyInPreambleOrIndex ==
    AfterCollect =>
        \A p \in groups : \A x, y \in Range(data[p]) :
            /\ Len(sentences[x]) = Len(sentences[y])
            /\ DiffPositions(sentences[x], sentences[y])
                  \subseteq {0, 1, p.pattern_index}
            /\ Cardinality(DiffPositions(sentences[x], sentences[y])
                  \ {0, 1}) <= 1

\* a group holding two sentences that differ in their first two words
C3_Witness ==
    /\ AfterCollect
    /\ \E p \in groups : \E x, y \in Range(data[p]) :
          DiffPositions(sentences[x], sentences[y]) \cap {0, 1} # {}

(* -------------------------------- C4 ---------------------------------- *)
\* C4 as stated: any two input sentences of equal length that differ at
\* exactly one position i >= 2 are together in the list of a flagged pattern.
C4_EveryPairGrouped ==
    AfterCollect =>
        \A x, y \in 1..Len(sentences) :
          \A i \in 2..(Len(sentences[x]) - 1) :
            (x < y /\ OneDiffAt(sentences[x], sentences[y], i)) =>
                \E p \in groups : {x, y} \subseteq Range(data[p])

\* C4 amended: two such sentences are together in the list of the flagged
\* pattern of index i unless one of them was appended to an existing pattern
\* of a smaller index (the scan of a sentence stops at its first match).
C4_PairGroupedUnlessMatchedEarlier ==
    AfterCollect =>
        \A x, y \in 1..Len(sentences) :
          \A i \in 2..(Len(sentences[x]) - 1) :
            ( /\ x < y
              /\ OneDiffAt(sentences[x], sentences[y], i)
              /\ ~MatchedBelow(x, i)
              /\ ~MatchedBelow(y, i) ) =>
                \E p \in groups :
                    /\ p.pattern_index = i
                    /\ {x, y} \subseteq Range(data[p])

\* three sentences, two of which differ at position 3 only and were not
\* matched below it, while the third was matched at position 2
C4_Witness ==
    /\ AfterCollect
    /\ Len(sentences) = 3
    /\ \E x, y, z \in 1..3 :
          /\ x < y
          /\ OneDiffAt(sentences[x], sentences[y], 3)
          /\ ~MatchedBelow(x, 3)
          /\ ~MatchedBelow(y, 3)
          /\ MatchedBelow(z, 3)

(* -------------------------------- C5 ---------------------------------- *)
\* no list of the collection holds a sentence of fewer than 3 words
NoShortSentenceCollected ==
    \A p \in DOMAIN data : \A x \in Range(data[p]) : Len(sentences[x]) >= 3

\* the outer loop is at a sentence of fewer than 3 words
AtShortSentence ==
    /\ pc = "collect"
    /\ sentence_pos <= Len(sentences)
    /\ Len(sentences[sentence_pos]) < 3

\* C5: a sentence of fewer than 3 words is never put under any pattern key
\* (so it is in no group), and the step that processes it goes on to the next
\* sentence without an error and leaves the collection unchanged.
C5_ShortSentenceSkipped ==
    /\ []NoShortSentenceCollected
    /\ [][AtShortSentence =>
            /\ patterns_collection' = patterns_collection
            /\ sentence_pos' = sentence_pos + 1
            /\ pc' = "collect"]_vars

\* a sentence of fewer than 3 words has been processed after the patterns of
\* a longer one were collected
C5_Witness ==
    /\ pc = "collect"
    /\ sentence_pos = 3
    /\ Len(sentences[1]) >= 3
    /\ Len(sentences[2]) < 3
    /\ DOMAIN data # {}

(* -------------------------------- C6 ---------------------------------- *)
\* C6: when the input is two sentences of equal length >= 3 that differ at
\* exactly one position i >= 2, exactly one pattern is flagged, its index is
\* i, its list is the two sentences in input order, and the changing-word
\* list written is the first sentence's word at i, then the second's.
C6_TwoSentencesOneGroup ==
    (AfterCollect /\ Len(sentences) = 2) =>
        \A i \in 2..(Len(sentences[1]) - 1) :
            OneDiffAt(sentences[1], sentences[2], i) =>
                /\ Cardinality(groups) = 1
                /\ \A p \in groups :
                      /\ p.pattern_index = i
                      /\ data[p] = <<1, 2>>
                /\ pc = "done" =>
                      /\ Len(output_file.content) = 1
                      /\ ChangingWords(output_file.content[1]) =
                            <<WordAt(sentences[1], i), WordAt(sentences[2], i)>>

\* the paragraph of two sentences that differ at position 3 has been written
C6_Witness ==
    /\ pc = "done"
    /\ Len(sentences) = 2
    /\ OneDiffAt(sentences[1], sentences[2], 3)
    /\ Len(output_file.content) = 1

(* -------------------------------- C7 ---------------------------------- *)
\* C7: in every state a pattern is flagged iff it is a key whose list has two
\* or more sentences; when the output is complete, exactly one paragraph
\* has been written per such key and none for any other key.
C7_FlaggedIffTwoOrMore ==
    /\ groups = MultiKeys
    /\ pc = "done" =>
          /\ yielded = MultiKeys
          /\ Len(output_file.content) = Cardinality(MultiKeys)
          /\ \A p \in MultiKeys : \E k \in 1..Len(output_file.content) :
                BodyLines(output_file.content[k]) =
                    [n \in 1..Len(data[p]) |-> str(sentences[data[p][n]])]

\* the output is complete, with a flagged pattern and a singleton key
C7_Witness ==
    /\ pc = "done"
    /\ MultiKeys # {}
    /\ \E p \in DOMAIN data : Len(data[p]) = 1

(* -------------------------------- C8 ---------------------------------- *)
\* C8: the list of every flagged pattern is in strictly increasing input
\* position; the paragraph written for it has these sentences as its body
\* lines, in this order, and its trailer lists, in the same order, the word
\* of each at the pattern's index.
C8_ParagraphOrder ==
    /\ \A p \in groups : \A m, n \in 1..Len(data[p]) :
          m < n => data[p][m] < data[p][n]
    /\ pc \in {"writelines", "done"} =>
          \A p \in yielded : \E k \in 1..Len(output_file.content) :
            /\ BodyLines(output_file.content[k]) =
                  [n \in 1..Len(data[p]) |-> str(sentences[data[p][n]])]
            /\ ChangingWords(output_file.content[k]) =
                  [n \in 1..Len(data[p]) |->
                      WordAt(sentences[data[p][n]], p.pattern_index)]

\* two paragraphs are written, one of a pattern of index 2 and one of a
\* pattern of index 3 whose sentences differ there
C8_Witness ==
    /\ pc = "done"
    /\ Len(output_file.content) = 2
    /\ \E p, q \in yielded :
          /\ p.pattern_index = 3
          /\ q.pattern_index = 2
          /\ WordAt(sentences[data[p][1]], 3) # WordAt(sentences[data[p][2]], 3)

(* -------------------------------- C9 ---------------------------------- *)
\* C9: if the input path is no readable file (missing, or present but not
\* readable), the run prints an error and returns without writing the output
\* file; the output file is written only when the read succeeded.
C9_UnreadableInputReported ==
    /\ (file_status # "ok" /\ pc # "main") =>
          /\ pc = "returned"
          /\ stdout # <<>>
          /\ ~output_file.written
    /\ output_file.written => file_status = "ok"

(* -------------------------------- C10 --------------------------------- *)
\* C10: two runs on the same input write the same set of paragraphs, the
\* same number of them, whatever order the flagged set is enumerated in.
C10_SameParagraphs ==
    (run = 2 /\ pc = "done") =>
        /\ Range(output_file.content) = Range(first_output)
        /\ Len(output_file.content) = Len(first_output)

\* the second run wrote its two paragraphs in the other order
C10_Witness ==
    /\ run = 2
    /\ pc = "done"
    /\ Len(first_output) = 2
    /\ output_file.content # first_output

(* -------------------------------- C11 --------------------------------- *)
\* no leading, no trailing and no doubled whitespace
CleanLine(line) ==
    /\ line # <<>> => (line[1] \notin Whitespace /\ line[Len(line)] \notin Whitespace)
    /\ \A k \in 1..(Len(line) - 1) :
          ~(line[k] \in Whitespace /\ line[k + 1] \in Whitespace)

\* C11: for a line without leading, trailing or doubled whitespace, the
\* rendering of the parsed sentence is the line itself.
C11_RenderParseIsLine ==
    (pc = "rendered" /\ CleanLine(lines[1])) => rendered[1] = lines[1]

\* a clean line of two words has been parsed and rendered
C11_Witness ==
    /\ pc = "rendered"
    /\ CleanLine(lines[1])
    /\ Len(sentences[1]) = 2

(* -------------------------------- C15 --------------------------------- *)
\* the line is empty or holds only whitespace
BlankLine(line) == \A k \in 1..Len(line) : line[k] \in Whitespace

\* C15: parsing an empty line, or a line of only whitespace, yields a
\* sentence of length zero.
C15_BlankLineParsesToNoWords ==
    (pc \in {"collect", "rendered"} /\ BlankLine(lines[1])) =>
        Len(sentences[1]) = 0

(* -------------------------------- C12 --------------------------------- *)
\* the input positions whose sentence the outer loop has finished
Processed ==
    IF AfterCollect THEN 1..Len(sentences)
    ELSE IF pc = "collect" THEN 1..(sentence_pos - 1)
    ELSE {}

\* the keys inserted for the sentence at x: it is the first of their list
Registered(x) == {p \in DOMAIN data : data[p][1] = x}

\* the keys to whose existing list the sentence at x was appended
Matched(x) == {p \in DOMAIN data : x \in Range(Tail(data[p]))}

\* the key of the sentence at x for the removal index j
KeyOf(x, j) ==
    [pattern_string |->
        join(<<" ">>, [k \in 1..(Len(sentences[x]) - 3) |->
            WordAt(sentences[x], IF k + 1 < j THEN k + 1 ELSE k + 2)]),
     pattern_index |-> j]

\* a processed sentence was appended to at most one list, that of its key at
\* some index m; it inserted its keys of the indices 2..m-1 and none above m;
\* with no match it inserted its key of every index in [2, len)
FirstMatchWins ==
    \A x \in Processed :
        /\ Cardinality(Matched(x)) <= 1
        /\ \A p \in Matched(x) :
              /\ p.pattern_index \in 2..(Len(sentences[x]) - 1)
              /\ p = KeyOf(x, p.pattern_index)
              /\ Registered(x) = {KeyOf(x, j) : j \in 2..(p.pattern_index - 1)}
        /\ Matched(x) = {} =>
              Registered(x) = {KeyOf(x, j) : j \in 2..(Len(sentences[x]) - 1)}

\* one step of the scan: a key that exists gets the sentence appended and the
\* scan of the sentence ends; a key that does not is inserted as a singleton
\* and the scan goes on; no other list changes
ScanStep ==
    InInnerLoop =>
        LET key == KeyOf(sentence_pos, pattern_index)
            d == patterns_collection'._data
        IN  /\ \A p \in DOMAIN data \ {key} : p \in DOMAIN d /\ d[p] = data[p]
            /\ DOMAIN d = DOMAIN data \cup {key}
            /\ IF key \in DOMAIN data
               THEN /\ d[key] = Append(data[key], sentence_pos)
                    /\ sentence_pos' = sentence_pos + 1
               ELSE /\ d[key] = <<sentence_pos>>
                    /\ sentence_pos' = sentence_pos
                    /\ pattern_index' = pattern_index + 1

\* C12: with m the smallest index in [2, len) whose pattern is already a key,
\* the sentence is appended to exactly that pattern's list, singleton keys
\* holding it are inserted for exactly the indices 2..m-1 and none above m is
\* created or changed; without such an m a singleton key is inserted for
\* every index in [2, len) and no existing list changes.
C12_FirstMatchWins ==
    /\ []FirstMatchWins
    /\ [][ScanStep]_vars

\* a sentence of four words was appended at index 3 after it inserted its
\* key of index 2, and another inserted both its keys
C12_Witness ==
    /\ AfterCollect
    /\ \E x, y \in Processed :
          /\ \E p \in Matched(x) : p.pattern_index = 3
          /\ Cardinality(Registered(x)) = 1
          /\ Matched(y) = {}
          /\ Cardinality(Registered(y)) = 2

(* -------------------------------- C13 --------------------------------- *)
\* C13: in every state, for every key with pattern index i and every
\* sentence S of its list, 2 <= i < len(S); so the word at the pattern index
\* exists for every sentence of a paragraph.
C13_PatternIndexInBounds ==
    \A p \in DOMAIN data : \A x \in Range(data[p]) :
        /\ 2 <= p.pattern_index
        /\ p.pattern_index < Len(sentences[x])

\* the paragraph of a pattern whose index is the last position of its
\* sentences has been written
C13_Witness ==
    /\ pc = "done"
    /\ \E p \in yielded :
          p.pattern_index = Len(sentences[data[p][1]]) - 1

(* -------------------------------- C14 --------------------------------- *)
\* every key stays, every list keeps what it holds and is at most extended
\* at its end, every flagged pattern stays flagged; writing the output
\* leaves the collection as it is
GrowsOnly ==
    /\ \A p \in DOMAIN data :
          /\ p \in DOMAIN patterns_collection'._data
          /\ Len(patterns_collection'._data[p]) >= Len(data[p])
          /\ SubSeq(patterns_collection'._data[p], 1, Len(data[p])) = data[p]
    /\ groups \subseteq patterns_collection'._pattern_groups
    /\ pc \in {"write", "writelines"} =>
          patterns_collection' = patterns_collection

\* C14: across the steps of collect_patterns a key once inserted is never
\* removed, a list is only extended at its end and never reset, a flagged
\* pattern stays flagged, and extracting the output changes neither the
\* mapping nor the group set.
C14_CollectionOnlyGrows == [][GrowsOnly]_vars

\* the output is written and a list was extended twice
C14_Witness ==
    /\ pc = "done"
    /\ output_file.content # <<>>
    /\ \E p \in DOMAIN data : Len(data[p]) = 3

(* -------------------------------- C16 --------------------------------- *)
\* n - 1, or 0 for n = 0
Pred0(n) == IF n >= 1 THEN n - 1 ELSE 0

\* C16: n sentences flag at most max(0, n-1) patterns, each processed
\* sentence at most one and the first none; no sentence or one sentence
\* gives no group and an empty output.
C16_AtMostNMinusOneGroups ==
    /\ pc = "collect" => Cardinality(groups) <= Pred0(sentence_pos - 1)
    /\ AfterCollect => Cardinality(groups) <= Pred0(Len(sentences))
    /\ (pc = "done" /\ Len(sentences) <= 1) =>
          /\ groups = {}
          /\ output_file.content = <<>>

\* three sentences have flagged two patterns
C16_Witness ==
    /\ pc = "done"
    /\ Len(sentences) = 3
    /\ Cardinality(groups) = 2

(* -------------------------------- C17 --------------------------------- *)
\* some word occurs twice in the list
HasRepeat(seq) == \E m, n \in 1..Len(seq) : m < n /\ seq[m] = seq[n]

\* C17: if the same sentence of length >= 3 is at input positions x < y,
\* then after collect_patterns y was appended to the list of a flagged
\* pattern of index 2 that also holds x, and the changing-word list written
\* for that pattern repeats a word.
C17_DuplicatesGroupedAtStart ==
    AfterCollect =>
        \A x, y \in 1..Len(sentences) :
            (x < y /\ sentences[x] = sentences[y] /\ Len(sentences[x]) >= 3) =>
                \E p \in groups :
                    /\ p.pattern_index = 2
                    /\ y \in Range(Tail(data[p]))
                    /\ x \in Range(data[p])
                    /\ pc = "done" =>
                          \E k \in 1..Len(output_file.content) :
                            /\ BodyLines(output_file.content[k]) =
                                  [n \in 1..Len(data[p]) |->
                                      str(sentences[data[p][n]])]
                            /\ HasRepeat(ChangingWords(output_file.content[k]))

\* the first and the third sentence are the same four words, the second is
\* another, and the output is written
C17_Witness ==
    /\ pc = "done"
    /\ Len(sentences) = 3
    /\ sentences[1] = sentences[3]
    /\ sentences[1] # sentences[2]
    /\ Len(sentences[1]) = 4

====
